---------------------------- MODULE Spec2Model ----------------------------
(***************************************************************************)
(* A model of the bow-hunter-pipeline ETL scripts: the Textract cell grid  *)
(* reconstruction, the header and record normalizers, the DuckDB upsert    *)
(* loaders and the batch drivers with their job polling loop.              *)
(*                                                                         *)
(* Python strings that the code inspects character by character are        *)
(* modelled as sequences of one-character strings, so that strip, lower,   *)
(* replace, isdigit and the numeric parsers are computed and not assumed.  *)
(***************************************************************************)
EXTENDS Integers, Sequences, FiniteSets, TLC

VARIABLES
    \* ---- cell grid reconstruction (etl/ingest_harvest_data.py, etl/ingest_population_data.py)
    blocks,        \* the Textract block list gathered so far
    table_grid,    \* the sparse grid {row: {col: text}} built by the reconstructor
    table,         \* the list of rows the reconstructor returned (<<>> before / on raise)
    gridExc,       \* "None", or the exception the reconstructor raised
    gridPc,        \* "blocks" | "harvest_done" | "population_done"
    \* ---- header normalization (_clean_headers, rows_to_data_frame of the population ETL)
    hdrIn,         \* the raw header string
    header,        \* the header after the passes made so far
    hdrPrev,       \* the header before the last pass
    hdrPasses,     \* number of normalization passes made
    normalizer,    \* "none" | "harvest" | "population": whose cleaning is applied
    \* ---- record normalization (rows_to_data_frame of both ETL pipelines)
    normTable,     \* the table handed to rows_to_data_frame: header row, then data rows
    species,       \* the species argument
    normOut,       \* what rows_to_data_frame returned or raised
    normPc,        \* "harvest_input" | "population_input" | "harvest_done" | "population_done"
    \* ---- DuckDB loaders (data_collection/ingest_population_data.py, data_processing/load_duckdb_data.py)
    elk_population,  \* the table: whether it exists, its primary key, its rows
    new_elk_data,    \* the DataFrame registered for the upsert
    afterFirst,      \* the table as the first run of the loader left it
    runs,            \* how many times the loader has run on new_elk_data
    loader,          \* "none" | "ingest" | "load": which loader is being run
    dupMode,         \* how this DuckDB build treats a key repeated inside one INSERT
    dbExc,           \* "None", or the exception the last run caught and logged
    dbCaller,        \* what the caller of the last run got: "returned" | "raised"
    tableBefore,     \* the table as the last run found it
    parquetFile,     \* the parquet file ingest_elk_population_data writes
    \* ---- batch mode of etl/ingest_harvest_data.py
    raw_files,       \* the raw PDF keys listed in S3
    idx,             \* position of the for loop in raw_files
    processed,       \* the processed parquet keys present in S3
    batchPc,         \* "loop" | "wait" | "returned" | "done" | "exited"
    jobStatus,       \* JobStatus of the Textract job in flight
    status,          \* what wait_for_job returned
    attempts,        \* polls of the current job that were followed by a sleep
    batchExc,        \* "None", or the exception that ended the process
    lastHead,        \* response of the last head_object call
    run,             \* which invocation of the script this is
    started,         \* positions of the inputs a job was started for, this run
    written,         \* keys written by this run
    headErrors,      \* whether an existence check of this run failed
    prevOk,          \* whether the previous run reached the end of its listing
    prevWritten,     \* keys written by the previous run
    \* ---- the DAU row parser of data_collection/ingest_population_data.py
    pdf_table,       \* tables[0] of the PDF: the first cell of each row, header first
    rowOut,          \* what the parse left: exception, data list, DataFrame
    rowPc            \* "table" | "parsed"

gridVars == <<blocks, table_grid, table, gridExc, gridPc>>

hdrVars == <<hdrIn, header, hdrPrev, hdrPasses, normalizer>>

normVars == <<normTable, species, normOut, normPc>>

dbVars == <<elk_population, new_elk_data, afterFirst, runs, loader, dupMode, dbExc,
            dbCaller, tableBefore, parquetFile>>

batchVars == <<raw_files, idx, processed, batchPc, jobStatus, status, attempts, batchExc,
               lastHead, run, started, written, headErrors, prevOk, prevWritten>>

rowVars == <<pdf_table, rowOut, rowPc>>

vars == <<gridVars, hdrVars, normVars, dbVars, batchVars, rowVars>>

\* What each part of the program leaves alone.
gridOthers == <<hdrVars, normVars, dbVars, batchVars, rowVars>>

hdrOthers == <<gridVars, normVars, dbVars, batchVars, rowVars>>

normOthers == <<gridVars, hdrVars, dbVars, batchVars, rowVars>>

dbOthers == <<gridVars, hdrVars, normVars, batchVars, rowVars>>

batchOthers == <<gridVars, hdrVars, normVars, dbVars, rowVars>>

rowOthers == <<gridVars, hdrVars, normVars, dbVars, batchVars>>

----------------------------------------------------------------------------
(* Bounds of the model.                                                    *)

MaxBlocks == 3

MaxHeaderLen == 3

MaxPasses == 2

MaxDataRows == 2

MaxDfRows == 2

MaxRuns == 2

MaxRawFiles == 2

MaxAttempts == 1

MaxBatchRuns == 2

MaxTableRows == 2

\* The coordinates Textract reports are 1-based.
PageNumbers == {1, 2}
RowIndexes == {1, 2}
ColumnIndexes == {1, 2}

----------------------------------------------------------------------------
(* Generic helpers.                                                        *)

SetMax(S) == CHOOSE x \in S : \A y \in S : y <= x

SetMin(S) == CHOOSE x \in S : \A y \in S : x <= y

\* sorted(S) for a finite set of integers
RECURSIVE Sorted(_)
Sorted(S) ==
    IF S = {} THEN <<>>
    ELSE LET m == SetMin(S) IN <<m>> \o Sorted(S \ {m})

\* The empty mapping (an empty dict / defaultdict).
EmptyMap == [x \in {} |-> <<>>]

\* sep.join(parts) over character sequences
RECURSIVE Join(_, _)
Join(sep, parts) ==
    IF parts = <<>> THEN <<>>
    ELSE IF Len(parts) = 1 THEN parts[1]
    ELSE parts[1] \o sep \o Join(sep, Tail(parts))

IsSpace(c) == c \in {" ", "\t", "\n"}

\* str.lstrip() / str.rstrip() / str.strip() with no argument
RECURSIVE LStrip(_)
LStrip(s) ==
    IF s # <<>> /\ IsSpace(s[1]) THEN LStrip(Tail(s)) ELSE s

RECURSIVE RStrip(_)
RStrip(s) ==
    IF s # <<>> /\ IsSpace(s[Len(s)]) THEN RStrip(SubSeq(s, 1, Len(s) - 1)) ELSE s

Strip(s) == LStrip(RStrip(s))

UpperLetters == <<"A", "B", "C", "D", "E", "F", "G", "H", "I", "J", "K", "L", "M",
                  "N", "O", "P", "Q", "R", "S", "T", "U", "V", "W", "X", "Y", "Z">>

LowerLetters == <<"a", "b", "c", "d", "e", "f", "g", "h", "i", "j", "k", "l", "m",
                  "n", "o", "p", "q", "r", "s", "t", "u", "v", "w", "x", "y", "z">>

Digits == <<"0", "1", "2", "3", "4", "5", "6", "7", "8", "9">>

Range(seq) == {seq[i] : i \in 1..Len(seq)}

\* str.lower()
LowerChar(c) ==
    IF c \in Range(UpperLetters)
    THEN LowerLetters[CHOOSE i \in 1..Len(UpperLetters) : UpperLetters[i] = c]
    ELSE c

Lower(s) == [i \in 1..Len(s) |-> LowerChar(s[i])]

\* str.replace(old, new) for a one-character old
RECURSIVE Replace(_, _, _)
Replace(s, old, new) ==
    IF s = <<>> THEN <<>>
    ELSE (IF Head(s) = old THEN new ELSE <<Head(s)>>) \o Replace(Tail(s), old, new)

\* re.sub(r"[^a-z0-9_]", "", s)
SubNonCanonical(s) ==
    SelectSeq(s, LAMBDA c : c \in Range(LowerLetters) \cup Range(Digits) \cup {"_"})

----------------------------------------------------------------------------
(* Textract blocks.                                                        *)

WordText == [w1 |-> <<"a">>]

WordBlock(id, page) ==
    [BlockType |-> "WORD", Page |-> page, RowIndex |-> 0, ColumnIndex |-> 0,
     Id |-> id, Text |-> WordText[id], Ids |-> <<>>]

CellBlock(page, r, c, ids) ==
    [BlockType |-> "CELL", Page |-> page, RowIndex |-> r, ColumnIndex |-> c,
     Id |-> "cell", Text |-> <<>>, Ids |-> ids]

\* The blocks a response may carry: one WORD block, and CELL blocks whose
\* CHILD relationship names no word or the word w1 (which resolves only when
\* the WORD block is in the response).
ChildIdLists == {<<>>, <<"w1">>}

BlockDomain ==
    {WordBlock("w1", 1)} \cup
    {CellBlock(p, r, c, ids) : p \in PageNumbers, r \in RowIndexes,
                               c \in ColumnIndexes, ids \in ChildIdLists}

IsCell(b) == b.BlockType = "CELL"

IsWord(b) == b.BlockType = "WORD"

\* [b for b in seq if pred]: the subsequence of the CELL blocks of a page
CellsOf(bs) == SelectSeq(bs, IsCell)

CellsOfPage(bs, p) == SelectSeq(bs, LAMBDA b : IsCell(b) /\ b.Page = p)

\* word_map = {b["Id"]: b["Text"] for b in blocks if b["BlockType"] == "WORD"}
WordIds(bs) == {bs[i].Id : i \in {j \in 1..Len(bs) : IsWord(bs[j])}}

WordMap(bs) ==
    [id \in WordIds(bs) |->
        LET last == SetMax({j \in 1..Len(bs) : IsWord(bs[j]) /\ bs[j].Id = id})
        IN bs[last].Text]

\* table_grid[row][col] = text on a defaultdict(dict)
GridPut(grid, r, c, text) ==
    IF r \in DOMAIN grid
    THEN [grid EXCEPT ![r] = (c :> text) @@ @]
    ELSE (r :> (c :> text)) @@ grid


----------------------------------------------------------------------------
(* extract_table_rows (harvest pipeline).                                  *)

\* pages = defaultdict(list); pages[b.get("Page", 1)].append(b)
PageKeys(bs) == {bs[i].Page : i \in 1..Len(bs)}

\* max_row = max((cell["RowIndex"] for cell in cells), default=0)
MaxRowNoAdvance(bs, p) == 0

MaxRowOfPage(bs, p) ==
    LET cells == CellsOfPage(bs, p)
    IN IF cells = <<>> THEN 0
       ELSE SetMax({cells[i].RowIndex : i \in 1..Len(cells)})

\* " ".join([word_map.get(cid, "") for cid in child_ids])
HarvestCellText(word_map, child_ids) ==
    Join(<<" ">>, [i \in 1..Len(child_ids) |->
                    IF child_ids[i] \in DOMAIN word_map
                    THEN word_map[child_ids[i]] ELSE <<>>])

\* for cell in cells: table_grid[cell["RowIndex"] + row_offset][col] = cell_data
RECURSIVE PlaceCells(_, _, _, _)
PlaceCells(grid, cells, row_offset, word_map) ==
    IF cells = <<>> THEN grid
    ELSE LET cell == Head(cells)
             adjusted_row == cell.RowIndex + row_offset
         IN PlaceCells(GridPut(grid, adjusted_row, cell.ColumnIndex,
                               HarvestCellText(word_map, cell.Ids)),
                       Tail(cells), row_offset, word_map)

\* for page_num in sorted(pages.keys()): ...; row_offset += max_row
RECURSIVE ProcessPages(_, _, _, _)
ProcessPages(grid, page_nums, row_offset, bs) ==
    IF page_nums = <<>> THEN grid
    ELSE LET page_num == Head(page_nums)
         IN ProcessPages(
                PlaceCells(grid, CellsOfPage(bs, page_num), row_offset, WordMap(bs)),
                Tail(page_nums),
                row_offset + MaxRowOfPage(bs, page_num),
                bs)

HarvestTableGrid(bs) == ProcessPages(EmptyMap, Sorted(PageKeys(bs)), 0, bs)

\* max_col = max(col for row in table_grid.values() for col in row)
GridColumns(grid) == UNION {DOMAIN grid[r] : r \in DOMAIN grid}

MaxColByRowSize(grid) == SetMax({Cardinality(DOMAIN grid[r]) : r \in DOMAIN grid})

MaxCol(grid) == SetMax(GridColumns(grid))

\* for row_index in sorted(table_grid.keys()):
\*     row = [table_grid[row_index].get(col_index, "") for col_index in range(1, max_col + 1)]
GridToTable(grid) ==
    LET max_col == MaxCol(grid)
        row_indexes == Sorted(DOMAIN grid)
    IN [i \in 1..Len(row_indexes) |->
          [col_index \in 1..max_col |->
              IF col_index \in DOMAIN grid[row_indexes[i]]
              THEN grid[row_indexes[i]][col_index] ELSE <<>>]]

----------------------------------------------------------------------------
(* ingest_population_data (population pipeline).                           *)

\* " ".join(word_map[id] for the ids found in word_map).strip()
PopulationCellText(word_map, child_ids) ==
    LET found == SelectSeq(child_ids, LAMBDA id : id \in DOMAIN word_map)
    IN Strip(Join(<<" ">>, [i \in 1..Len(found) |-> word_map[found[i]]]))

\* for block in cell_blocks: table_grid[row_index][col_index] = cell_text
RECURSIVE PopulationPlaceCells(_, _, _)
PopulationPlaceCells(grid, cells, word_map) ==
    IF cells = <<>> THEN grid
    ELSE LET block == Head(cells)
         IN PopulationPlaceCells(
                GridPut(grid, block.RowIndex, block.ColumnIndex,
                        PopulationCellText(word_map, block.Ids)),
                Tail(cells), word_map)

PopulationTableGrid(bs) == PopulationPlaceCells(EmptyMap, CellsOf(bs), WordMap(bs))

----------------------------------------------------------------------------
(* Actions of the cell grid reconstruction.                                *)

\* The record normalizers before a table was handed to them.
NormIdle ==
    /\ normTable = <<>>
    /\ species = "elk"
    /\ normOut = [exc |-> "None", df |-> [columns |-> <<>>, dtypes |-> <<>>, rows |-> <<>>]]
    /\ normPc = "idle"

\* The database before any loader ran: no elk_population table.
NoTable == [exists |-> FALSE, pk |-> "none", rows |-> <<>>]

DbIdle ==
    /\ elk_population = NoTable
    /\ new_elk_data = <<>>
    /\ afterFirst = NoTable
    /\ runs = 0
    /\ loader = "none"
    /\ dupMode = "error"
    /\ dbExc = "None"
    /\ dbCaller = "returned"
    /\ tableBefore = NoTable
    /\ parquetFile = [exists |-> FALSE, rows |-> <<>>]

RowIdle ==
    /\ pdf_table = <<>>
    /\ rowOut = [exc |-> "None", data |-> <<>>, df |-> <<>>]
    /\ rowPc = "parsed"

BatchIdle ==
    /\ raw_files = <<>>
    /\ idx = 1
    /\ processed = {}
    /\ batchPc = "done"
    /\ jobStatus = "None"
    /\ status = "None"
    /\ attempts = 0
    /\ batchExc = "None"
    /\ lastHead = "None"
    /\ run = 1
    /\ started = <<>>
    /\ written = {}
    /\ headErrors = FALSE
    /\ prevOk = FALSE
    /\ prevWritten = {}

GridInit ==
    /\ blocks = <<>>
    /\ table_grid = EmptyMap
    /\ table = <<>>
    /\ gridExc = "None"
    /\ gridPc = "blocks"

\* The header normalization before any header was read.
HdrIdle ==
    /\ hdrIn = <<>>
    /\ header = <<>>
    /\ hdrPrev = <<>>
    /\ hdrPasses = 0
    /\ normalizer = "none"

\* get_blocks: all_blocks.extend(response["Blocks"]), one block at a time
GetBlocks ==
    /\ gridPc = "blocks"
    /\ Len(blocks) < MaxBlocks
    /\ \E b \in BlockDomain : blocks' = Append(blocks, b)
    /\ UNCHANGED <<table_grid, table, gridExc, gridPc>>
    /\ UNCHANGED gridOthers

\* The tail of both reconstructors: max() of an empty generator raises ValueError.
FinishGrid(grid, pc) ==
    /\ table_grid' = grid
    /\ gridPc' = pc
    /\ IF GridColumns(grid) = {}
       THEN /\ gridExc' = "ValueError"
            /\ table' = <<>>
       ELSE /\ gridExc' = "None"
            /\ table' = GridToTable(grid)
    /\ UNCHANGED blocks
    /\ UNCHANGED gridOthers

ExtractTableRows ==
    /\ gridPc = "blocks"
    /\ FinishGrid(HarvestTableGrid(blocks), "harvest_done")

IngestPopulationData ==
    /\ gridPc = "blocks"
    /\ FinishGrid(PopulationTableGrid(blocks), "population_done")

GridNext == GetBlocks \/ ExtractTableRows \/ IngestPopulationData

InitGrid == GridInit /\ HdrIdle /\ NormIdle /\ DbIdle /\ BatchIdle /\ RowIdle

SpecGrid == InitGrid /\ [][GridNext]_vars

----------------------------------------------------------------------------
(* Properties of the cell grid reconstruction.                             *)

GridDone == gridPc \in {"harvest_done", "population_done"}

CellIndexes == {i \in 1..Len(blocks) : blocks[i].BlockType = "CELL"}

\* The highest RowIndex among the CELL blocks of page p (0 when it has none).
ObservedMaxRow(p) ==
    LET rows == {blocks[i].RowIndex : i \in {j \in CellIndexes : blocks[j].Page = p}}
    IN IF rows = {} THEN 0 ELSE CHOOSE r \in rows : \A q \in rows : q <= r

RECURSIVE SumObservedMaxRows(_)
SumObservedMaxRows(P) ==
    IF P = {} THEN 0
    ELSE LET p == CHOOSE q \in P : TRUE
         IN ObservedMaxRow(p) + SumObservedMaxRows(P \ {p})

\* The output row the claims expect for the cell blocks[i].
ExpectedRow(i) ==
    IF gridPc = "harvest_done"
    THEN blocks[i].RowIndex
         + SumObservedMaxRows({blocks[j].Page : j \in 1..Len(blocks)}
                              \cap 1..(blocks[i].Page - 1))
    ELSE blocks[i].RowIndex

ObservedMaxColumn ==
    LET cols == {blocks[i].ColumnIndex : i \in CellIndexes}
    IN CHOOSE c \in cols : \A d \in cols : d <= c

\* The row key of the n-th output row: the n-th smallest expected row.
NthExpectedRow(n) ==
    CHOOSE k \in {ExpectedRow(i) : i \in CellIndexes} :
        Cardinality({ExpectedRow(i) : i \in CellIndexes} \cap 1..k) = n

CellSeenAt(k, c) ==
    \E i \in CellIndexes : ExpectedRow(i) = k /\ blocks[i].ColumnIndex = c

\* C1: for a non-empty set of CELL blocks the returned table is rectangular:
\* every row is as long as the maximum ColumnIndex over all cells, there is
\* one row per distinct row, and a position no cell was seen at holds "".
C1_Rectangular ==
    (GridDone /\ CellIndexes # {}) =>
        /\ gridExc = "None"
        /\ Len(table) = Cardinality({ExpectedRow(i) : i \in CellIndexes})
        /\ \A n \in 1..Len(table) :
              /\ Len(table[n]) = ObservedMaxColumn
              /\ \A c \in 1..Len(table[n]) :
                    ~CellSeenAt(NthExpectedRow(n), c) => table[n][c] = <<>>

\* A reconstructed two-row table with a position that no cell covered.
C1_Witness ==
    /\ gridPc = "population_done"
    /\ Len(table) = 2
    /\ \E n \in 1..2 : \E c \in 1..Len(table[n]) :
          ~CellSeenAt(NthExpectedRow(n), c) /\ table[n][c] = <<>>
    /\ \E n \in 1..2 : \E c \in 1..Len(table[n]) : table[n][c] # <<>>

\* The last block, in list order, that is a cell of the same page, row and column.
LastSameCell(i) ==
    CHOOSE j \in CellIndexes :
        /\ blocks[j].Page = blocks[i].Page
        /\ blocks[j].RowIndex = blocks[i].RowIndex
        /\ blocks[j].ColumnIndex = blocks[i].ColumnIndex
        /\ \A l \in CellIndexes :
              (/\ blocks[l].Page = blocks[i].Page
               /\ blocks[l].RowIndex = blocks[i].RowIndex
               /\ blocks[l].ColumnIndex = blocks[i].ColumnIndex) => l <= j

\* C2: extract_table_rows places a cell of row r at grid row r plus the sum of
\* the maximum row indices of all earlier pages; cells of different pages
\* never share a grid row, and the text at a position is that of the last
\* cell of its own page there (no cell of another page overwrote it).
C2_PageOffsets ==
    gridPc = "harvest_done" =>
        /\ \A i \in CellIndexes :
              /\ ExpectedRow(i) \in DOMAIN table_grid
              /\ blocks[i].ColumnIndex \in DOMAIN table_grid[ExpectedRow(i)]
              /\ table_grid[ExpectedRow(i)][blocks[i].ColumnIndex]
                    = HarvestCellText(WordMap(blocks), blocks[LastSameCell(i)].Ids)
        /\ \A i, j \in CellIndexes :
              blocks[i].Page # blocks[j].Page => ExpectedRow(i) # ExpectedRow(j)
        /\ DOMAIN table_grid = {ExpectedRow(i) : i \in CellIndexes}

\* Page 1 reaches row 2, and row 1 of page 2 is placed at grid row 3.
C2_Witness ==
    /\ gridPc = "harvest_done"
    /\ \E i, j \in CellIndexes :
          /\ blocks[i].Page = 1 /\ blocks[i].RowIndex = 2
          /\ blocks[j].Page = 2 /\ blocks[j].RowIndex = 1
          /\ ExpectedRow(j) = 3
    /\ 3 \in DOMAIN table_grid
    /\ Len(table) = 2

\* C3: with no CELL block the reconstructor reports an empty table and does
\* not raise.
C3_EmptyTableReported ==
    (GridDone /\ CellIndexes = {}) => (gridExc = "None" /\ table = <<>>)

----------------------------------------------------------------------------
(* Header normalization.                                                   *)

\* h_clean = h.strip().lower().replace(" ", "_"); re.sub(r"[^a-z0-9_]", "", h_clean)
CleanHeaderHarvest(h) ==
    SubNonCanonical(Replace(Lower(Strip(h)), " ", <<"_">>))

\* A variant that writes the slash out with spaces after the space replacement.
CleanHeaderPopulationSpacedPer(h) ==
    Replace(Replace(Lower(h), " ", <<"_">>), "/", <<" ", "p", "e", "r", " ">>)

\* h.lower().replace(" ", "_").replace("/", "_per_")
CleanHeaderPopulation(h) ==
    Replace(Replace(Lower(h), " ", <<"_">>), "/", <<"_", "p", "e", "r", "_">>)

\* The characters raw headers are drawn from.
HeaderChars == {"A", "a", " ", "/", "_", "(", "1"}

RECURSIVE StringsUpTo(_, _)
StringsUpTo(chars, n) ==
    IF n = 0 THEN {<<>>}
    ELSE LET shorter == StringsUpTo(chars, n - 1)
         IN shorter \cup {Append(x, c) : x \in shorter, c \in chars}

HeaderStrings == StringsUpTo(HeaderChars, MaxHeaderLen)

HdrInit ==
    /\ hdrIn \in HeaderStrings
    /\ header = hdrIn
    /\ hdrPrev = hdrIn
    /\ hdrPasses = 0
    /\ normalizer = "none"

ApplyCleaning(who, cleaned) ==
    /\ normalizer \in {"none", who}
    /\ normalizer' = who
    /\ hdrPrev' = header
    /\ header' = cleaned
    /\ hdrPasses' = hdrPasses + 1
    /\ UNCHANGED hdrIn
    /\ UNCHANGED hdrOthers

\* _clean_headers of the harvest pipeline, on one header
CleanHeaders ==
    /\ hdrPasses < MaxPasses
    /\ ApplyCleaning("harvest", CleanHeaderHarvest(header))

\* the header cleaning of the population rows_to_data_frame, on one header
CleanHeadersPopulation ==
    /\ hdrPasses < MaxPasses
    /\ ApplyCleaning("population", CleanHeaderPopulation(header))

HdrNext == CleanHeaders \/ CleanHeadersPopulation

InitHeaders == HdrInit /\ GridInit /\ NormIdle /\ DbIdle /\ BatchIdle /\ RowIdle

SpecHeaders == InitHeaders /\ [][HdrNext]_vars

\* C4: header normalization is idempotent in both normalizers: a second pass
\* over a normalized header returns it unchanged.
C4_Idempotent ==
    hdrPasses >= 2 => header = hdrPrev

\* A header that the first pass rewrote (a slash or a space) went through two passes.
C4_Witness ==
    /\ hdrPasses = 2
    /\ normalizer = "population"
    /\ header # hdrIn
    /\ \E i \in 1..Len(hdrIn) : hdrIn[i] = "/"
    /\ \E i \in 1..Len(hdrIn) : hdrIn[i] = " "

----------------------------------------------------------------------------
(* Cell values of a pandas DataFrame and the parsers applied to them.      *)

\* A cell is a string, an integer, a float that is not a whole number, or
\* null (pd.NA / NaN).
StrVal(s) == [t |-> "str", s |-> s, n |-> 0, f |-> <<>>]

IntVal(n) == [t |-> "int", s |-> <<>>, n |-> n, f |-> <<>>]

FloatVal(n, f) == [t |-> "float", s |-> <<>>, n |-> n, f |-> f]

NullVal == [t |-> "null", s |-> <<>>, n |-> 0, f |-> <<>>]

\* str.isdigit()
IsDigitString(s) == s # <<>> /\ \A i \in 1..Len(s) : s[i] \in Range(Digits)

DigitValue(c) == (CHOOSE i \in 1..Len(Digits) : Digits[i] = c) - 1

RECURSIVE DigitsValue(_)
DigitsValue(s) ==
    IF s = <<>> THEN 0
    ELSE 10 * DigitsValue(SubSeq(s, 1, Len(s) - 1)) + DigitValue(s[Len(s)])

\* str.lstrip("0")
RECURSIVE LStripZeros(_)
LStripZeros(s) ==
    IF s # <<>> /\ s[1] = "0" THEN LStripZeros(Tail(s)) ELSE s

\* int(s): surrounding whitespace is ignored; anything but a non-empty run of
\* digits raises ValueError (signs and underscores are not in the alphabet).
IntRaises(s) == ~IsDigitString(Strip(s))

IntOf(s) == DigitsValue(Strip(s))

\* str.rstrip("0") of a fraction
RECURSIVE RStripZeros(_)
RStripZeros(s) ==
    IF s # <<>> /\ s[Len(s)] = "0" THEN RStripZeros(SubSeq(s, 1, Len(s) - 1)) ELSE s

\* pd.to_numeric(series.str.replace(",", ""), errors="coerce") on one cell:
\* digits with at most one decimal point parse, everything else is NaN.
ToNumeric(s) ==
    LET x == Strip(Replace(s, ",", <<>>))
        dots == {i \in 1..Len(x) : x[i] = "."}
    IN IF IsDigitString(x) THEN IntVal(DigitsValue(x))
       ELSE IF Cardinality(dots) = 1
       THEN LET d == CHOOSE i \in dots : TRUE
                whole == SubSeq(x, 1, d - 1)
                frac == SubSeq(x, d + 1, Len(x))
            IN IF /\ whole \o frac # <<>>
                  /\ \A i \in 1..Len(whole \o frac) : (whole \o frac)[i] \in Range(Digits)
               THEN IF RStripZeros(frac) = <<>>
                    THEN IntVal(DigitsValue(whole))
                    ELSE FloatVal(DigitsValue(whole), RStripZeros(frac))
               ELSE NullVal
       ELSE NullVal

\* .astype("Int64") raises TypeError on a float that is not a whole number.
Int64Raises(v) == v.t = "float"

----------------------------------------------------------------------------
(* DataFrames: column names, their dtypes, and rows aligned to the columns. *)

Frame(columns, dtypes, rows) == [columns |-> columns, dtypes |-> dtypes, rows |-> rows]

EmptyFrame == Frame(<<>>, <<>>, <<>>)

HasColumn(df, name) == \E i \in 1..Len(df.columns) : df.columns[i] = name

ColumnIndex(df, name) == CHOOSE i \in 1..Len(df.columns) : df.columns[i] = name

Cell(df, row, name) == row[ColumnIndex(df, name)]

\* df[name]: the column as a series of cells
Column(df, name) == [r \in 1..Len(df.rows) |-> Cell(df, df.rows[r], name)]

\* a scalar broadcast to the length of the frame
Broadcast(df, value) == [r \in 1..Len(df.rows) |-> value]

\* df[name] = values (a new column is appended)
SetColumn(df, name, dtype, values) ==
    IF HasColumn(df, name)
    THEN LET k == ColumnIndex(df, name)
         IN Frame(df.columns,
                  [df.dtypes EXCEPT ![k] = dtype],
                  [r \in 1..Len(df.rows) |-> [df.rows[r] EXCEPT ![k] = values[r]]])
    ELSE Frame(Append(df.columns, name),
               Append(df.dtypes, dtype),
               [r \in 1..Len(df.rows) |-> Append(df.rows[r], values[r])])

\* df.rename(columns={old: new})
RenameColumn(df, old, new) ==
    Frame([i \in 1..Len(df.columns) |->
              IF df.columns[i] = old THEN new ELSE df.columns[i]],
          df.dtypes, df.rows)

\* df.drop(columns=[name])
DropColumn(df, name) ==
    LET keep == SelectSeq([i \in 1..Len(df.columns) |-> i],
                          LAMBDA i : df.columns[i] # name)
    IN Frame([k \in 1..Len(keep) |-> df.columns[keep[k]]],
             [k \in 1..Len(keep) |-> df.dtypes[keep[k]]],
             [r \in 1..Len(df.rows) |->
                 [k \in 1..Len(keep) |-> df.rows[r][keep[k]]]])

\* df[mask]
FilterRows(df, mask) ==
    LET keep == SelectSeq([r \in 1..Len(df.rows) |-> r], LAMBDA r : mask[r])
    IN Frame(df.columns, df.dtypes, [k \in 1..Len(keep) |-> df.rows[keep[k]]])

\* row[0].strip().lower() != "total"
IsFooterRow(row) == Lower(Strip(row[1])) = <<"t", "o", "t", "a", "l">>

\* filtered_rows = [row for row in data_rows if row[0].strip().lower() != "total"]
\* df = pd.DataFrame(filtered_rows, columns=headers)
BuildFrame(headers, data_rows) ==
    LET filtered_rows == SelectSeq(data_rows, LAMBDA row : ~IsFooterRow(row))
    IN Frame(headers,
             [i \in 1..Len(headers) |-> "object"],
             [r \in 1..Len(filtered_rows) |->
                 [c \in 1..Len(headers) |-> StrVal(filtered_rows[r][c])]])

\* The outcome of a normalizer: the frame it returned, or the exception raised.
Returned(df) == [exc |-> "None", df |-> df]

Raised(exc) == [exc |-> exc, df |-> EmptyFrame]

----------------------------------------------------------------------------
(* rows_to_data_frame of the harvest pipeline.                             *)

SpeciesChars ==
    [elk |-> <<"e", "l", "k">>, deer |-> <<"d", "e", "e", "r">>, pronghorn |-> <<"p", "r", "o", "n", "g", "h", "o", "r", "n">>, moose |-> <<"m", "o", "o", "s", "e">>]

\* SPECIES_HARVEST_COLUMN_MAP, each dict in its insertion order
SPECIES_HARVEST_COLUMN_MAP ==
    [elk |-> << <<<<"b", "u", "l", "l", "s">>, <<"a", "d", "u", "l", "t", "_", "m", "a", "l", "e">>>>, <<<<"c", "o", "w", "s">>, <<"a", "d", "u", "l", "t", "_", "f", "e", "m", "a", "l", "e">>>>,
                <<<<"c", "a", "l", "v", "e", "s">>, <<"y", "o", "u", "n", "g">>>> >>,
     deer |-> << <<<<"b", "u", "c", "k", "s">>, <<"a", "d", "u", "l", "t", "_", "m", "a", "l", "e">>>>, <<<<"d", "o", "e", "s">>, <<"a", "d", "u", "l", "t", "_", "f", "e", "m", "a", "l", "e">>>>,
                 <<<<"f", "a", "w", "n", "s">>, <<"y", "o", "u", "n", "g">>>> >>,
     pronghorn |-> << <<<<"b", "u", "c", "k", "s">>, <<"a", "d", "u", "l", "t", "_", "m", "a", "l", "e">>>>, <<<<"d", "o", "e", "s">>, <<"a", "d", "u", "l", "t", "_", "f", "e", "m", "a", "l", "e">>>>,
                      <<<<"f", "a", "w", "n", "s">>, <<"y", "o", "u", "n", "g">>>> >>]

\* numeric_cols
HarvestNumericCols ==
    << <<"a", "d", "u", "l", "t", "_", "m", "a", "l", "e">>, <<"a", "d", "u", "l", "t", "_", "f", "e", "m", "a", "l", "e">>, <<"y", "o", "u", "n", "g">>, <<"t", "o", "t", "a", "l", "_", "h", "a", "r", "v", "e", "s", "t">>, <<"t", "o", "t", "a", "l", "_", "h", "u", "n", "t", "e", "r", "s">>,
       <<"p", "e", "r", "c", "e", "n", "t", "_", "s", "u", "c", "c", "e", "s", "s">>, <<"t", "o", "t", "a", "l", "_", "r", "e", "c", "_", "d", "a", "y", "s">> >>

\* df["state"] = state; df["species"] = species; df["year"] = year
AddMetadata(df, sp) ==
    LET a == SetColumn(df, <<"s", "t", "a", "t", "e">>, "object", Broadcast(df, StrVal(<<"c", "o">>)))
        b == SetColumn(a, <<"s", "p", "e", "c", "i", "e", "s">>, "object",
                       Broadcast(df, StrVal(SpeciesChars[sp])))
    IN SetColumn(b, <<"y", "e", "a", "r">>, "int64", Broadcast(df, IntVal(2024)))

\* lambda x: int(x.lstrip("0")) if x.strip().isdigit() else pd.NA
UnitRaises(x) == IsDigitString(Strip(x)) /\ IntRaises(LStripZeros(x))

\* A variant that keeps the cell text instead of converting it.
UnitKeepsText(x) == StrVal(x)

UnitValue(x) ==
    IF IsDigitString(Strip(x)) THEN IntVal(IntOf(LStripZeros(x))) ELSE NullVal

\* for src_col, target_col in species_sex_map.items(): rename, or df[target_col] = 0
RECURSIVE RenameSexColumns(_, _)
RenameSexColumns(df, pairs) ==
    IF pairs = <<>> THEN df
    ELSE LET src_col == Head(pairs)[1]
             target_col == Head(pairs)[2]
         IN RenameSexColumns(
                IF HasColumn(df, src_col)
                THEN RenameColumn(df, src_col, target_col)
                ELSE SetColumn(df, target_col, "int64", Broadcast(df, IntVal(0))),
                Tail(pairs))

\* for col in numeric_cols: if col in df.columns:
\*     df[col] = pd.to_numeric(df[col].str.replace(",", ""), errors="coerce").astype("Int64")
\* The .str accessor raises AttributeError on a column that does not hold
\* strings; astype("Int64") raises TypeError on a fractional value.
RECURSIVE CoerceHarvestColumns(_, _)
CoerceHarvestColumns(df, cols) ==
    IF cols = <<>> THEN Returned(df)
    ELSE LET col == Head(cols)
         IN IF ~HasColumn(df, col) THEN CoerceHarvestColumns(df, Tail(cols))
            ELSE IF df.dtypes[ColumnIndex(df, col)] # "object"
            THEN Raised("AttributeError")
            ELSE LET numeric == [r \in 1..Len(df.rows) |->
                                    ToNumeric(Column(df, col)[r].s)]
                 IN IF \E r \in 1..Len(numeric) : Int64Raises(numeric[r])
                    THEN Raised("TypeError")
                    ELSE CoerceHarvestColumns(SetColumn(df, col, "Int64", numeric),
                                              Tail(cols))

HarvestRowsToDataFrame(tbl, sp) ==
    LET headers == [i \in 1..Len(tbl[1]) |-> CleanHeaderHarvest(tbl[1][i])]
        built == BuildFrame(headers, Tail(tbl))
        meta == SetColumn(AddMetadata(built, sp), <<"s", "e", "a", "s", "o", "n">>, "object",
                          Broadcast(built, StrVal(<<"a", "r", "c", "h", "e", "r", "y">>)))
    IN IF /\ HasColumn(meta, <<"u", "n", "i", "t">>)
          /\ \E r \in 1..Len(meta.rows) : UnitRaises(Column(meta, <<"u", "n", "i", "t">>)[r].s)
       THEN Raised("ValueError")
       ELSE LET df == IF HasColumn(meta, <<"u", "n", "i", "t">>)
                      THEN LET unit == [r \in 1..Len(meta.rows) |->
                                           UnitValue(Column(meta, <<"u", "n", "i", "t">>)[r].s)]
                           IN FilterRows(SetColumn(meta, <<"u", "n", "i", "t">>, "Int64", unit),
                                         [r \in 1..Len(unit) |-> unit[r].t # "null"])
                      ELSE meta
            IN IF sp \notin DOMAIN SPECIES_HARVEST_COLUMN_MAP
               THEN Raised("ValueError")
               ELSE CoerceHarvestColumns(
                        RenameSexColumns(df, SPECIES_HARVEST_COLUMN_MAP[sp]),
                        HarvestNumericCols)

----------------------------------------------------------------------------
(* rows_to_data_frame of the population pipeline.                          *)

\* SPECIES_RATIO_HEADERS
SPECIES_RATIO_HEADERS ==
    [elk |-> << <<"b", "u", "l", "l", "_", "c", "o", "w", "_", "r", "a", "t", "i", "o", "_", "(", "p", "e", "r", "_", "1", "0", "0", ")">>, <<"b", "u", "l", "l", "_", "p", "e", "r", "_", "c", "o", "w", "_", "r", "a", "t", "i", "o", "_", "(", "p", "e", "r", "_", "1", "0", "0", ")">> >>,
     deer |-> << <<"b", "u", "c", "k", "_", "d", "o", "e", "_", "r", "a", "t", "i", "o", "_", "(", "p", "e", "r", "_", "1", "0", "0", ")">>, <<"b", "u", "c", "k", "_", "p", "e", "r", "_", "d", "o", "e", "_", "r", "a", "t", "i", "o", "_", "(", "p", "e", "r", "_", "1", "0", "0", ")">> >>,
     pronghorn |-> << <<"b", "u", "c", "k", "_", "p", "e", "r", "_", "d", "o", "e", "_", "r", "a", "t", "i", "o", "_", "(", "p", "e", "r", "_", "1", "0", "0", ")">> >>]

\* GMU_HEADER_PATTERNS without their trailing \d{4}
GMU_HEADER_PATTERNS ==
    << <<"g", "a", "m", "e", "_", "m", "a", "n", "a", "g", "e", "m", "e", "n", "t", "_", "u", "n", "i", "t", "s", "_", "i", "n", "v", "o", "l", "v", "e", "d", "_", "i", "n", "_">>, <<"g", "a", "m", "e", "_", "m", "a", "n", "a", "g", "e", "m", "e", "n", "t", "_", "u", "n", "i", "t", "e", "s", "_", "i", "n", "v", "o", "l", "v", "e", "d", "_", "i", "n", "_">> >>

\* re.match(pattern, col): the pattern matches a prefix of col
MatchesGmuPattern(col, pattern) ==
    /\ Len(col) >= Len(pattern) + 4
    /\ SubSeq(col, 1, Len(pattern)) = pattern
    /\ IsDigitString(SubSeq(col, Len(pattern) + 1, Len(pattern) + 4))

\* if "gmu_list" not in df.columns: rename the first column matching a pattern
RenameGmuColumn(df) ==
    LET hits == {i \in 1..Len(df.columns) :
                    \E p \in 1..Len(GMU_HEADER_PATTERNS) :
                        MatchesGmuPattern(df.columns[i], GMU_HEADER_PATTERNS[p])}
    IN IF HasColumn(df, <<"g", "m", "u", "_", "l", "i", "s", "t">>) \/ hits = {} THEN df
       ELSE RenameColumn(df, df.columns[SetMin(hits)], <<"g", "m", "u", "_", "l", "i", "s", "t">>)

\* df["post_hunt_estimate"] = pd.to_numeric(df[...].str.replace(",", ""), errors="coerce")
CoerceEstimate(df) ==
    IF HasColumn(df, <<"p", "o", "s", "t", "_", "h", "u", "n", "t", "_", "e", "s", "t", "i", "m", "a", "t", "e">>)
    THEN SetColumn(df, <<"p", "o", "s", "t", "_", "h", "u", "n", "t", "_", "e", "s", "t", "i", "m", "a", "t", "e">>, "float64",
                   [r \in 1..Len(df.rows) |->
                       ToNumeric(Column(df, <<"p", "o", "s", "t", "_", "h", "u", "n", "t", "_", "e", "s", "t", "i", "m", "a", "t", "e">>)[r].s)])
    ELSE df

\* possible_ratio_cols = ratio_headers + ["male_female_ratio"]
PossibleRatioCols(sp) ==
    (IF sp \in DOMAIN SPECIES_RATIO_HEADERS THEN SPECIES_RATIO_HEADERS[sp] ELSE <<>>)
    \o << <<"m", "a", "l", "e", "_", "f", "e", "m", "a", "l", "e", "_", "r", "a", "t", "i", "o">> >>

\* the first of possible_ratio_cols that is a column becomes male_female_ratio
CoerceRatio(df, sp) ==
    LET possible == PossibleRatioCols(sp)
        found == {i \in 1..Len(possible) : HasColumn(df, possible[i])}
    IN IF found = {} THEN df
       ELSE LET found_ratio_col == possible[SetMin(found)]
                coerced == SetColumn(df, <<"m", "a", "l", "e", "_", "f", "e", "m", "a", "l", "e", "_", "r", "a", "t", "i", "o">>, "float64",
                               [r \in 1..Len(df.rows) |->
                                   ToNumeric(Column(df, found_ratio_col)[r].s)])
            IN IF found_ratio_col # <<"m", "a", "l", "e", "_", "f", "e", "m", "a", "l", "e", "_", "r", "a", "t", "i", "o">>
               THEN DropColumn(coerced, found_ratio_col)
               ELSE coerced

\* herd_name, or "DAU_" + dau when only a dau* column exists
ResolveHerdName(df) ==
    IF HasColumn(df, <<"h", "e", "r", "d", "_", "n", "a", "m", "e">>) \/ ~HasColumn(df, <<"d", "a", "u", "*">>) THEN df
    ELSE LET renamed == RenameColumn(df, <<"d", "a", "u", "*">>, <<"d", "a", "u">>)
         IN SetColumn(renamed, <<"h", "e", "r", "d", "_", "n", "a", "m", "e">>, "object",
                      [r \in 1..Len(renamed.rows) |->
                          StrVal(<<"D", "A", "U", "_">> \o Column(renamed, <<"d", "a", "u">>)[r].s)])

PopulationRowsToDataFrame(tbl, sp) ==
    LET headers == [i \in 1..Len(tbl[1]) |-> CleanHeaderPopulation(tbl[1][i])]
        df == AddMetadata(BuildFrame(headers, Tail(tbl)), sp)
    IN Returned(ResolveHerdName(CoerceRatio(CoerceEstimate(RenameGmuColumn(df)), sp)))

----------------------------------------------------------------------------
(* The tables and species the record normalizers are run on.               *)

\* Harvest tables: a key column (the unit, or a hunt code), a count column,
\* and two more columns; each header row with the species it is read for.
HarvestInputs ==
    { <<"elk", << <<"U", "n", "i", "t">>, <<"B", "u", "l", "l", "s">>, <<"C", "o", "w", "s">>, <<"C", "a", "l", "v", "e", "s">> >> >>,
      <<"elk", << <<"H", "u", "n", "t", " ", "C", "o", "d", "e">>, <<"B", "u", "l", "l", "s">>, <<"C", "o", "w", "s">>, <<"C", "a", "l", "v", "e", "s">> >> >>,
      <<"elk", << <<"U", "n", "i", "t">>, <<"T", "o", "t", "a", "l", " ", "H", "a", "r", "v", "e", "s", "t">>, <<"B", "u", "l", "l", "s">>, <<"C", "o", "w", "s">> >> >>,
      <<"deer", << <<"U", "n", "i", "t">>, <<"B", "u", "c", "k", "s">>, <<"D", "o", "e", "s">>, <<"F", "a", "w", "n", "s">> >> >>,
      <<"moose", << <<"U", "n", "i", "t">>, <<"B", "u", "l", "l", "s">>, <<"C", "o", "w", "s">>, <<"C", "a", "l", "v", "e", "s">> >> >> }

HarvestRows ==
    { <<key, count, <<"1">>, <<"2">>>> :
        key \in { <<"0", "0", "7">>, <<"0">>, <<"N", "/", "A">>, <<" ", "T", "o", "t", "a", "l", " ">> },
        count \in { <<"5">>, <<"1", ",", "2", "5", "0">>, <<"4", ".", "5">>, <<"n", "/", "a">> } }

PopulationInputs ==
    { <<"elk", << <<"H", "e", "r", "d", " ", "N", "a", "m", "e">>, <<"P", "o", "s", "t", " ", "H", "u", "n", "t", " ", "E", "s", "t", "i", "m", "a", "t", "e">>,
                  <<"G", "a", "m", "e", " ", "M", "a", "n", "a", "g", "e", "m", "e", "n", "t", " ", "U", "n", "i", "t", "s", " ", "I", "n", "v", "o", "l", "v", "e", "d", " ", "i", "n", " ", "2", "0", "1", "9">>,
                  <<"B", "u", "l", "l", "/", "C", "o", "w", " ", "R", "a", "t", "i", "o", " ", "(", "p", "e", "r", " ", "1", "0", "0", ")">> >> >>,
      <<"elk", << <<"D", "A", "U", "*">>, <<"P", "o", "s", "t", " ", "H", "u", "n", "t", " ", "E", "s", "t", "i", "m", "a", "t", "e">>, <<"G", "M", "U", " ", "L", "i", "s", "t">>, <<"M", "a", "l", "e", " ", "F", "e", "m", "a", "l", "e", " ", "R", "a", "t", "i", "o">> >> >>,
      <<"elk", << <<"H", "e", "r", "d", " ", "N", "a", "m", "e">>, <<"E", "s", "t", "i", "m", "a", "t", "e">>, <<"U", "n", "i", "t", "s">>, <<"N", "o", "t", "e", "s">> >> >>,
      <<"deer", << <<"H", "e", "r", "d", " ", "N", "a", "m", "e">>, <<"P", "o", "s", "t", " ", "H", "u", "n", "t", " ", "E", "s", "t", "i", "m", "a", "t", "e">>,
                   <<"G", "a", "m", "e", " ", "M", "a", "n", "a", "g", "e", "m", "e", "n", "t", " ", "U", "n", "i", "t", "e", "s", " ", "I", "n", "v", "o", "l", "v", "e", "d", " ", "i", "n", " ", "2", "0", "1", "9">>,
                   <<"B", "u", "l", "l", "/", "C", "o", "w", " ", "R", "a", "t", "i", "o", " ", "(", "p", "e", "r", " ", "1", "0", "0", ")">> >> >> }

PopulationRows ==
    { <<key, estimate, <<"1", "2", ",", "1", "3">>, ratio>> :
        key \in { <<"E", "2">>, <<"T", "O", "T", "A", "L">> },
        estimate \in { <<"1", ",", "2", "5", "0">>, <<"n", "/", "a">> },
        ratio \in { <<"1", "8">>, <<"0">>, <<>> } }

RECURSIVE SeqsUpTo(_, _)
SeqsUpTo(S, n) ==
    IF n = 0 THEN {<<>>}
    ELSE LET shorter == SeqsUpTo(S, n - 1)
         IN shorter \cup {Append(x, e) : x \in shorter, e \in S}

NormInit ==
    /\ normOut = Returned(EmptyFrame)
    /\ \/ /\ normPc = "harvest_input"
          /\ \E in \in HarvestInputs, rows \in SeqsUpTo(HarvestRows, MaxDataRows) :
                species = in[1] /\ normTable = <<in[2]>> \o rows
       \/ /\ normPc = "population_input"
          /\ \E in \in PopulationInputs, rows \in SeqsUpTo(PopulationRows, MaxDataRows) :
                species = in[1] /\ normTable = <<in[2]>> \o rows

\* rows_to_data_frame(table, state, species, year, season) of the harvest ETL
RowsToDataFrameHarvest ==
    /\ normPc = "harvest_input"
    /\ normOut' = HarvestRowsToDataFrame(normTable, species)
    /\ normPc' = "harvest_done"
    /\ UNCHANGED <<normTable, species>>
    /\ UNCHANGED normOthers

\* rows_to_data_frame(table, state, species, year) of the population ETL
RowsToDataFramePopulation ==
    /\ normPc = "population_input"
    /\ normOut' = PopulationRowsToDataFrame(normTable, species)
    /\ normPc' = "population_done"
    /\ UNCHANGED <<normTable, species>>
    /\ UNCHANGED normOthers

NormNext == RowsToDataFrameHarvest \/ RowsToDataFramePopulation

InitNormalize == NormInit /\ GridInit /\ HdrIdle /\ DbIdle /\ BatchIdle /\ RowIdle

SpecNormalize == InitNormalize /\ [][NormNext]_vars

----------------------------------------------------------------------------
(* Properties of the record normalizers.                                   *)

NormDone == normPc \in {"harvest_done", "population_done"}

InputHeaders == [i \in 1..Len(normTable[1]) |-> CleanHeaderHarvest(normTable[1][i])]

InputHasColumn(name) == \E i \in 1..Len(InputHeaders) : InputHeaders[i] = name

InputColumn(name) == CHOOSE i \in 1..Len(InputHeaders) : InputHeaders[i] = name

\* The data rows that are not "total" footers.
NonFooterRows == SelectSeq(Tail(normTable), LAMBDA row : ~IsFooterRow(row))

\* The harvest table names a supported species and holds all of its
\* sex-class source columns.
HarvestColumnsComplete ==
    /\ species \in DOMAIN SPECIES_HARVEST_COLUMN_MAP
    /\ \A k \in 1..Len(SPECIES_HARVEST_COLUMN_MAP[species]) :
          InputHasColumn(SPECIES_HARVEST_COLUMN_MAP[species][k][1])

\* C5: numeric coercion is total: whatever strings the cells of the coerced
\* columns hold, the normalizer does not raise.
C5_CoercionNeverRaises ==
    /\ (normPc = "harvest_done" /\ HarvestColumnsComplete) => normOut.exc = "None"
    /\ normPc = "population_done" => normOut.exc = "None"

\* The non-footer rows whose unit cell is a run of digits.
NumericUnitRows ==
    SelectSeq(NonFooterRows,
              LAMBDA row : IsDigitString(Strip(row[InputColumn(<<"u", "n", "i", "t">>)])))

C7_RecordCount ==
    /\ (normPc = "harvest_done" /\ HarvestColumnsComplete /\ InputHasColumn(<<"u", "n", "i", "t">>)) =>
          /\ normOut.exc = "None"
          /\ Len(normOut.df.rows) = Len(NumericUnitRows)
    /\ normPc = "population_done" =>
          /\ normOut.exc = "None"
          /\ Len(normOut.df.rows) = Len(NonFooterRows)

----------------------------------------------------------------------------
(* The DuckDB upsert loaders.                                              *)

ElkRow(dau, herd_name, gmu_list, post_hunt_estimate, bull_cow_ratio, year) ==
    [dau |-> dau, herd_name |-> herd_name, gmu_list |-> gmu_list,
     post_hunt_estimate |-> post_hunt_estimate, bull_cow_ratio |-> bull_cow_ratio,
     year |-> year]

\* PRIMARY KEY (dau, herd_name, gmu_list, year)
FullKey(row) == <<row.dau, row.herd_name, row.gmu_list, row.year>>

\* PRIMARY KEY (herd_name, year)
HerdYearKey(row) == <<row.herd_name, row.year>>

KeyOf(pk, row) == IF pk = "full" THEN FullKey(row) ELSE HerdYearKey(row)

\* ON CONFLICT ... DO NOTHING
KeepsOldRow(pk, old, new) == old

\* DO UPDATE SET post_hunt_estimate = EXCLUDED..., bull_cow_ratio = EXCLUDED...
\* (the (herd_name, year) loader also sets dau and gmu_list)
UpdatedRow(pk, old, new) ==
    IF pk = "full"
    THEN [old EXCEPT !.post_hunt_estimate = new.post_hunt_estimate,
                     !.bull_cow_ratio = new.bull_cow_ratio]
    ELSE [old EXCEPT !.dau = new.dau, !.gmu_list = new.gmu_list,
                     !.post_hunt_estimate = new.post_hunt_estimate,
                     !.bull_cow_ratio = new.bull_cow_ratio]

\* A plain INSERT with no conflict handling.
InsertRow(pk, rows, new) == Append(rows, new)

\* INSERT ... ON CONFLICT (key) DO UPDATE SET ..., for one row
UpsertRow(pk, rows, new) ==
    IF \E i \in 1..Len(rows) : KeyOf(pk, rows[i]) = KeyOf(pk, new)
    THEN [i \in 1..Len(rows) |->
            IF KeyOf(pk, rows[i]) = KeyOf(pk, new)
            THEN UpdatedRow(pk, rows[i], new) ELSE rows[i]]
    ELSE Append(rows, new)

RECURSIVE UpsertRows(_, _, _)
UpsertRows(pk, rows, data) ==
    IF data = <<>> THEN rows
    ELSE UpsertRows(pk, UpsertRow(pk, rows, Head(data)), Tail(data))

\* Two rows of one INSERT carry the same key.
RepeatsKey(pk, data) ==
    \E i, j \in 1..Len(data) : i < j /\ KeyOf(pk, data[i]) = KeyOf(pk, data[j])

\* The INSERT statement as a whole: it fails, changing nothing, when the
\* table's primary key is not the conflict target, or when a key is repeated
\* inside the statement and this DuckDB build rejects that.
InsertFails(tbl, pk, data) ==
    \/ tbl.pk # pk
    \/ dupMode = "error" /\ RepeatsKey(pk, data)

\* The records the loaders are run on.
ElkRows ==
    { ElkRow(dau, herd, "76", estimate, 18, year) :
        dau \in {"12", "13"}, herd \in {"South Park", "Elkhead"},
        estimate \in {1250, 900}, year \in {2019} }

\* The tables a loader may find: none, or one left by either loader.
ExistingTables ==
    { NoTable,
      [exists |-> TRUE, pk |-> "full",
       rows |-> << ElkRow("12", "South Park", "76", 700, 20, 2019) >>],
      [exists |-> TRUE, pk |-> "herd_year",
       rows |-> << ElkRow("12", "South Park", "76", 700, 20, 2019) >>] }

DbInit ==
    /\ elk_population \in ExistingTables
    /\ new_elk_data \in SeqsUpTo(ElkRows, MaxDfRows)
    /\ afterFirst = NoTable
    /\ runs = 0
    /\ loader = "none"
    /\ dupMode \in {"error", "sequential"}
    /\ dbExc = "None"
    /\ dbCaller = "returned"
    /\ tableBefore = elk_population
    /\ parquetFile = [exists |-> FALSE, rows |-> <<>>]

\* A DROP that leaves the table where it is.
KeepTable(tbl) == tbl

\* DROP TABLE IF EXISTS elk_population
DropTable(tbl) == NoTable

\* A handler that logs the exception and raises it again.
LoaderReRaises(exc) == IF exc = "None" THEN "returned" ELSE "raised"

\* except Exception as e: print, traceback.print_exc(); the function then ends
LoaderOutcome(exc) == "returned"

\* What every run records.
RunDone(who) ==
    /\ loader' = who
    /\ runs' = runs + 1
    /\ afterFirst' = IF runs = 0 THEN elk_population' ELSE afterFirst
    /\ tableBefore' = elk_population
    /\ dbCaller' = LoaderOutcome(dbExc')
    /\ UNCHANGED <<new_elk_data, dupMode>>
    /\ UNCHANGED dbOthers

\* ingest_elk_population_data from the DataFrame on: the parquet file is
\* written, then, inside try, CREATE TABLE IF NOT EXISTS with the four-column
\* key and the upsert; an exception is caught and logged.
IngestElkPopulationData ==
    /\ loader \in {"none", "ingest"}
    /\ runs < MaxRuns
    /\ parquetFile' = [exists |-> TRUE, rows |-> new_elk_data]
    /\ LET created == IF elk_population.exists THEN elk_population
                      ELSE [exists |-> TRUE, pk |-> "full", rows |-> <<>>]
       IN IF InsertFails(created, "full", new_elk_data)
          THEN /\ elk_population' = created
               /\ dbExc' = "Exception"
          ELSE /\ elk_population' =
                     [created EXCEPT !.rows = UpsertRows("full", @, new_elk_data)]
               /\ dbExc' = "None"
    /\ RunDone("ingest")

\* load_elk_population_to_duckdb after the parquet files were read: nothing is
\* done for an empty frame; otherwise, inside try, DROP TABLE IF EXISTS,
\* CREATE TABLE IF NOT EXISTS with the (herd_name, year) key, then the
\* upsert; an exception is caught and logged.
LoadElkPopulationToDuckdb ==
    /\ loader \in {"none", "load"}
    /\ runs < MaxRuns
    /\ UNCHANGED parquetFile
    /\ IF new_elk_data = <<>>
       THEN /\ UNCHANGED elk_population
            /\ dbExc' = "None"
       ELSE LET dropped == DropTable(elk_population)
                created == IF dropped.exists THEN dropped
                           ELSE [exists |-> TRUE, pk |-> "herd_year", rows |-> <<>>]
            IN IF InsertFails(created, "herd_year", new_elk_data)
               THEN /\ elk_population' = created
                    /\ dbExc' = "Exception"
               ELSE /\ elk_population' =
                          [created EXCEPT !.rows = UpsertRows("herd_year", @, new_elk_data)]
                    /\ dbExc' = "None"
    /\ RunDone("load")

DbNext == IngestElkPopulationData \/ LoadElkPopulationToDuckdb

InitDb == DbInit /\ GridInit /\ HdrIdle /\ NormIdle /\ BatchIdle /\ RowIdle

SpecUpsert == InitDb /\ [][DbNext]_vars

\* No natural key of the table's primary key appears in more than one row.
KeysUnique(tbl) ==
    \A i, j \in 1..Len(tbl.rows) :
        KeyOf(tbl.pk, tbl.rows[i]) = KeyOf(tbl.pk, tbl.rows[j]) => i = j

\* C8: running a loader a second time on identical input leaves the table
\* exactly as the first run left it, with no key in more than one row.
C8_RerunIdempotent ==
    runs >= 2 => (elk_population = afterFirst /\ KeysUnique(elk_population))

\* Two runs of ingest_elk_population_data on a frame of two records, one of
\* which overwrote the estimate of a row that was already in the table.
C8_Witness ==
    /\ runs = 2
    /\ loader = "ingest"
    /\ dbExc = "None"
    /\ Len(new_elk_data) = 2
    /\ Len(elk_population.rows) = 2
    /\ \E i \in 1..2 :
          /\ FullKey(elk_population.rows[i]) = <<"12", "South Park", "76", 2019>>
          /\ elk_population.rows[i].post_hunt_estimate = 1250

----------------------------------------------------------------------------
(* Batch mode of the harvest ETL: list the raw PDFs, skip those whose      *)
(* processed parquet exists, run Textract on the others one after another. *)

\* os.path.basename
Basename(path) ==
    LET slashes == {i \in 1..Len(path) : path[i] = "/"}
    IN IF slashes = {} THEN path ELSE SubSeq(path, SetMax(slashes) + 1, Len(path))

\* os.path.splitext(name)[0], for a name without directories
SplitExtRoot(name) ==
    LET dots == {i \in 2..Len(name) : name[i] = "."}
    IN IF dots = {} THEN name ELSE SubSeq(name, 1, SetMax(dots) - 1)

\* re.search(r"(\d{4})", raw_file): the leftmost four digits in a row, <<>> for None
YearMatch(raw_file) ==
    LET hits == {i \in 1..(Len(raw_file) - 3) : IsDigitString(SubSeq(raw_file, i, i + 3))}
    IN IF hits = {} THEN <<>> ELSE SubSeq(raw_file, SetMin(hits), SetMin(hits) + 3)

\* processed/{state}/{species}/harvest/{season}/{year}/{filename_base}.parquet,
\* for the state, species and season of the invocation
ProcessedKey(year, filename_base) == <<"processed", year, filename_base, ".parquet">>

\* The key _processed_parquet_exists is asked about for a raw file.
CheckedKey(raw_file) ==
    ProcessedKey(IntOf(YearMatch(raw_file)), SplitExtRoot(Basename(raw_file)))

\* write_parquet_to_s3 with the basename left with its extension
S3PathKeepsExtension(object_key, year) == ProcessedKey(year, Basename(object_key))

\* s3_path of write_parquet_to_s3
S3Path(object_key, year) == ProcessedKey(year, SplitExtRoot(Basename(object_key)))

\* The raw PDFs under the prefix, in the order S3 lists keys.
AllRawFiles ==
    << <<"r", "a", "w", "/", "c", "o", "/", "e", "l", "k", "/", "h", "a", "r", "v", "e", "s", "t", "/", "a", "r", "c", "h", "e", "r", "y", "/", "2", "0", "2", "2", "/", "s", "u", "m", "m", "a", "r", "y", ".", "p", "d", "f">>,
       <<"r", "a", "w", "/", "c", "o", "/", "e", "l", "k", "/", "h", "a", "r", "v", "e", "s", "t", "/", "a", "r", "c", "h", "e", "r", "y", "/", "c", "o", "l", "o", "r", "a", "d", "o", "_", "a", "r", "c", "h", "e", "r", "y", "_", "e", "l", "k", "_", "h", "a", "r", "v", "e", "s", "t", "_", "2", "0", "2", "3", ".", "p", "d", "f">>,
       <<"r", "a", "w", "/", "c", "o", "/", "e", "l", "k", "/", "h", "a", "r", "v", "e", "s", "t", "/", "a", "r", "c", "h", "e", "r", "y", "/", "c", "o", "l", "o", "r", "a", "d", "o", "_", "a", "r", "c", "h", "e", "r", "y", "_", "e", "l", "k", "_", "h", "a", "r", "v", "e", "s", "t", "_", "2", "0", "2", "4", ".", "p", "d", "f">>,
       <<"r", "a", "w", "/", "c", "o", "/", "e", "l", "k", "/", "h", "a", "r", "v", "e", "s", "t", "/", "a", "r", "c", "h", "e", "r", "y", "/", "r", "e", "a", "d", "m", "e", ".", "p", "d", "f">> >>

\* _get_raw_harvest_pdfs: the keys that are there, in listing order
Listing(present) ==
    LET positions == Sorted(present)
    IN [i \in 1..Len(positions) |-> AllRawFiles[positions[i]]]

\* The table Textract finds in each PDF.
TableOfPdf(raw_file) ==
    LET head_row == << <<"U", "n", "i", "t">>, <<"B", "u", "l", "l", "s">>, <<"C", "o", "w", "s">>, <<"C", "a", "l", "v", "e", "s">> >>
    IN CASE raw_file = AllRawFiles[1] -> << head_row, << <<"0">>, <<"5">>, <<"1">>, <<"2">> >> >>
         [] raw_file = AllRawFiles[2] -> << head_row, << <<"0", "0", "7">>, <<"5">>, <<"1">>, <<"2">> >> >>
         [] raw_file = AllRawFiles[3] -> << head_row, << <<"1", "2">>, <<"1", ",", "2", "5", "0">>, <<"1">>, <<"2">> >>, << <<"T", "o", "t", "a", "l">>, <<"9">>, <<"1">>, <<"2">> >> >>
         [] OTHER -> <<>>

\* Textract job statuses
JobStatuses == {"IN_PROGRESS", "SUCCEEDED", "FAILED", "PARTIAL_SUCCESS"}

\* wait_for_job with any status but IN_PROGRESS ending the wait
IsNotInProgress(s) == s # "IN_PROGRESS"

\* status in ["SUCCEEDED", "FAILED"]
IsFinalStatus(s) == s \in {"SUCCEEDED", "FAILED"}

\* s3.head_object: 200 for a key that is there, 404 for one that is not, or
\* another client error (403, 500, ...) either way
HeadObject(key) == {IF key \in processed THEN "200" ELSE "404", "403"}

\* _processed_parquet_exists: True only when head_object succeeded
ProcessedParquetExists(response) == response = "200"

BatchInit ==
    /\ \E present \in SUBSET (1..Len(AllRawFiles)) :
          /\ Cardinality(present) <= MaxRawFiles
          /\ raw_files = Listing(present)
    /\ processed \in SUBSET {CheckedKey(AllRawFiles[i]) : i \in 1..3}
    /\ idx = 1
    /\ batchPc = "loop"
    /\ jobStatus = "None"
    /\ status = "None"
    /\ attempts = 0
    /\ batchExc = "None"
    /\ lastHead = "None"
    /\ run = 1
    /\ started = <<>>
    /\ written = {}
    /\ headErrors = FALSE
    /\ prevOk = FALSE
    /\ prevWritten = {}

\* for raw_file in raw_files: up to the start of the Textract job
BatchMode ==
    /\ batchPc = "loop"
    /\ IF idx > Len(raw_files)
       THEN /\ batchPc' = "done"
            /\ UNCHANGED <<idx, jobStatus, lastHead, started, headErrors>>
       ELSE IF YearMatch(raw_files[idx]) = <<>>
       THEN /\ idx' = idx + 1
            /\ UNCHANGED <<batchPc, jobStatus, lastHead, started, headErrors>>
       ELSE \E response \in HeadObject(CheckedKey(raw_files[idx])) :
              /\ lastHead' = response
              /\ headErrors' = (headErrors \/ response \notin {"200", "404"})
              /\ IF ProcessedParquetExists(response)
                 THEN /\ idx' = idx + 1
                      /\ UNCHANGED <<batchPc, jobStatus, started>>
                 ELSE /\ batchPc' = "wait"
                      /\ jobStatus' = "IN_PROGRESS"
                      /\ started' = Append(started, idx)
                      /\ UNCHANGED idx
    /\ UNCHANGED <<raw_files, processed, status, attempts, batchExc, run, written,
                   prevOk, prevWritten>>
    /\ UNCHANGED batchOthers

\* Textract works on the job: a job in progress takes one of its end statuses.
JobProgress ==
    /\ batchPc = "wait"
    /\ jobStatus = "IN_PROGRESS"
    /\ jobStatus' \in JobStatuses \ {"IN_PROGRESS"}
    /\ UNCHANGED <<raw_files, idx, processed, batchPc, status, attempts, batchExc,
                   lastHead, run, started, written, headErrors, prevOk, prevWritten>>
    /\ UNCHANGED batchOthers

\* One pass of the while loop of wait_for_job: return, or sleep and poll again.
WaitForJob ==
    /\ batchPc = "wait"
    /\ IF IsFinalStatus(jobStatus)
       THEN /\ status' = jobStatus
            /\ batchPc' = "returned"
            /\ UNCHANGED attempts
       ELSE /\ attempts' = IF attempts < MaxAttempts THEN attempts + 1 ELSE attempts
            /\ UNCHANGED <<status, batchPc>>
    /\ UNCHANGED <<raw_files, idx, processed, jobStatus, batchExc, lastHead, run,
                   started, written, headErrors, prevOk, prevWritten>>
    /\ UNCHANGED batchOthers

\* A status test that every returned status passes.
StatusAny(s) == TRUE

\* status != "SUCCEEDED", negated
StatusSucceeded(s) == s = "SUCCEEDED"

\* _process_single_harvest_file after wait_for_job returned. sys is not
\* imported, so sys.exit(1) raises NameError; nothing catches an exception.
ProcessSingleHarvestFile ==
    /\ batchPc = "returned"
    /\ LET raw_file == raw_files[idx]
           full_table == TableOfPdf(raw_file)
           out == IF full_table = <<>> THEN Raised("ValueError")
                  ELSE HarvestRowsToDataFrame(full_table, "elk")
           s3_path == S3Path(raw_file, IntOf(YearMatch(raw_file)))
       IN IF ~StatusSucceeded(status)
          THEN /\ batchPc' = "exited"
               /\ batchExc' = "NameError"
               /\ UNCHANGED <<idx, processed, written>>
          ELSE IF out.exc # "None"
          THEN /\ batchPc' = "exited"
               /\ batchExc' = out.exc
               /\ UNCHANGED <<idx, processed, written>>
          ELSE /\ processed' = processed \cup {s3_path}
               /\ written' = written \cup {s3_path}
               /\ idx' = idx + 1
               /\ batchPc' = "loop"
               /\ UNCHANGED batchExc
    /\ jobStatus' = "None"
    /\ status' = "None"
    /\ attempts' = 0
    /\ UNCHANGED <<raw_files, lastHead, run, started, headErrors, prevOk, prevWritten>>
    /\ UNCHANGED batchOthers

\* The script is invoked again on the same bucket.
StartBatch ==
    /\ batchPc \in {"done", "exited"}
    /\ run < MaxBatchRuns
    /\ run' = run + 1
    /\ prevOk' = (batchPc = "done")
    /\ prevWritten' = written
    /\ idx' = 1
    /\ batchPc' = "loop"
    /\ batchExc' = "None"
    /\ lastHead' = "None"
    /\ started' = <<>>
    /\ written' = {}
    /\ headErrors' = FALSE
    /\ UNCHANGED <<raw_files, processed, jobStatus, status, attempts>>
    /\ UNCHANGED batchOthers

BatchNext ==
    BatchMode \/ JobProgress \/ WaitForJob \/ ProcessSingleHarvestFile \/ StartBatch

InitBatch == BatchInit /\ GridInit /\ HdrIdle /\ NormIdle /\ DbIdle /\ RowIdle

SpecBatch == InitBatch /\ [][BatchNext]_vars

\* The while loop of wait_for_job keeps polling every ten seconds.
FairSpecBatch == InitBatch /\ [][BatchNext]_vars /\ WF_vars(WaitForJob)

\* A job is in flight for raw_files[idx].
JobInFlight == batchPc \in {"wait", "returned"}

\* Jobs were started for inputs in listing order, each at most once.
StartedInListingOrder ==
    \A i, j \in 1..Len(started) : i < j => started[i] < started[j]

C10_WaitReturnsFinalStatus ==
    /\ [](batchPc = "returned" => (status \in {"SUCCEEDED", "FAILED"} /\ status = jobStatus))
    /\ [][(batchPc = "wait" /\ jobStatus \notin {"SUCCEEDED", "FAILED"}) => batchPc' = "wait"]_vars
    /\ (batchPc = "wait" /\ jobStatus \in {"SUCCEEDED", "FAILED"}) ~> (batchPc = "returned")

\* The wait returned FAILED after at least one poll that found the job still
\* in progress.
C10_Witness ==
    /\ batchPc = "returned"
    /\ status = "FAILED"
    /\ attempts >= 1

----------------------------------------------------------------------------
(* The DAU row parser of ingest_elk_population_data.                       *)

\* str.split(): the maximal runs of non-whitespace characters
RECURSIVE Split(_)
Split(s) ==
    LET t == LStrip(s)
        spaces == {i \in 1..Len(t) : IsSpace(t[i])}
    IN IF t = <<>> THEN <<>>
       ELSE IF spaces = {} THEN <<t>>
       ELSE <<SubSeq(t, 1, SetMin(spaces) - 1)>> \o Split(SubSeq(t, SetMin(spaces), Len(t)))

\* keyword in row_text
Contains(s, keyword) ==
    \E i \in 1..(Len(s) - Len(keyword) + 1) : SubSeq(s, i, i + Len(keyword) - 1) = keyword

\* A keyword test that no row passes.
HasKeywordNever(row_text) == FALSE

\* any(keyword in row_text for keyword in ['Total', 'DAU (', '* DAU'])
HasKeyword(row_text) ==
    \E keyword \in {<<"T", "o", "t", "a", "l">>, <<"D", "A", "U", " ", "(">>, <<"*", " ", "D", "A", "U">>} : Contains(row_text, keyword)

\* re.match(r'^(\d{2})', row_text)
DauMatch(row_text) == Len(row_text) >= 2 /\ IsDigitString(SubSeq(row_text, 1, 2))

\* re.match(r'^\d+', part) or ',' in part
IsGmuPart(part) == (part # <<>> /\ part[1] \in Range(Digits)) \/ "," \in Range(part)

\* The for loop over name_and_gmu_parts: gmu_start_idx is assigned the 0-based
\* index of the first matching part, and is not assigned when there is none.
\* The name is bound nowhere else, so it keeps what an earlier row assigned,
\* and is unbound (-1 here) when no row assigned it.
GmuStartIdx(name_and_gmu_parts, before) ==
    LET hits == {i \in 1..Len(name_and_gmu_parts) : IsGmuPart(name_and_gmu_parts[i])}
    IN IF hits = {} THEN before ELSE SetMin(hits) - 1

\* One iteration of "for row in table[1:]". st is the function's state on
\* entry: the exception raised so far, data, and gmu_start_idx.
ParseRow(cell, st) ==
    LET row_text == Strip(cell)
        remaining_text == Split(SubSeq(row_text, 3, Len(row_text)))
        n == Len(remaining_text)
        name_and_gmu_parts == SubSeq(remaining_text, 1, n - 2)
        gmu_start_idx == GmuStartIdx(name_and_gmu_parts, st.gmu_start_idx)
        cut == IF gmu_start_idx < n - 2 THEN gmu_start_idx ELSE n - 2
        herd_name_parts == SubSeq(name_and_gmu_parts, 1, cut)
        gmu_parts == SubSeq(name_and_gmu_parts, cut + 1, n - 2)
    IN IF st.exc # "None" THEN st
       ELSE IF HasKeyword(row_text) \/ ~DauMatch(row_text) \/ n < 4 THEN st
       ELSE IF gmu_start_idx = -1
       THEN [st EXCEPT !.exc = "UnboundLocalError"]
       ELSE [st EXCEPT
               !.gmu_start_idx = gmu_start_idx,
               !.data = Append(@, [dau |-> SubSeq(row_text, 1, 2),
                                   herd_name |-> Join(<<" ">>, herd_name_parts),
                                   gmu_list |-> Join(<<>>, gmu_parts),
                                   post_hunt_estimate |-> remaining_text[n - 1],
                                   bull_cow_ratio |-> remaining_text[n],
                                   year |-> 2019])]

RECURSIVE ParseRows(_, _)
ParseRows(rows, st) ==
    IF rows = <<>> THEN st ELSE ParseRows(Tail(rows), ParseRow(Head(rows), st))

\* pd.to_numeric(..., errors='coerce') of the two measurement columns, the
\* estimate after .str.replace(',', ''), then df[df['bull_cow_ratio'] != 0]
ElkFrame(data) ==
    LET coerced == [i \in 1..Len(data) |->
            [data[i] EXCEPT
               !.post_hunt_estimate = ToNumeric(Replace(@, ",", <<>>)),
               !.bull_cow_ratio = IF "," \in Range(@) THEN NullVal ELSE ToNumeric(@)]]
    IN SelectSeq(coerced, LAMBDA r : r.bull_cow_ratio # IntVal(0))

\* ingest_elk_population_data up to the parquet file: an exception other than
\* ValueError leaves the function, and no DataFrame is built.
ParseTable(tbl) ==
    LET st == ParseRows(Tail(tbl), [exc |-> "None", data |-> <<>>, gmu_start_idx |-> -1])
    IN [exc |-> st.exc, data |-> st.data,
        df |-> IF st.exc = "None" THEN ElkFrame(st.data) ELSE <<>>]

\* First cells of the rows a PDF table may hold.
RowTexts ==
    { <<"1", "2", " ", "S", "o", "u", "t", "h", " ", "P", "a", "r", "k", " ", "7", "6", ",", "7", "7", ",", "7", "8", " ", "1", ",", "2", "5", "0", " ", "1", "8">>,
      <<"1", "3", " ", "E", "l", "k", "h", "e", "a", "d", " ", "N", "o", "r", "t", "h", " ", "1", ",", "1", "0", "0", " ", "2", "0">>,
      <<"1", "4", " ", "B", "e", "a", "r", " ", "3", " ", "9", "0", "0", " ", "0">>,
      <<"1", "6", " ", "2", "1", " ", "2", "2", " ", "8", "0", "0", " ", "3", "0", " ">>,
      <<"1", "7", " ", "W", "h", "i", "t", "e", " ", "R", "i", "v", "e", "r", " ", "A", "r", "e", "a", " ", "1", "0", " ", "2", ",", "0", "0", "0", " ", "n", "/", "a">>,
      <<"1", "5", " ", "G", "o", "r", "e", " ", "7", "0", "0", " ", "2", "5">>,
      <<"T", "o", "t", "a", "l", " ", "3", ",", "2", "5", "0">>,
      <<"2", "1", " ", "S", "t", "a", "t", "e", "w", "i", "d", "e", " ", "T", "o", "t", "a", "l", " ", "5", " ", "4", "0", ",", "0", "0", "0", " ", "2", "2">>,
      <<"E", "2", " ", "G", "o", "r", "e", " ", "1", "5", " ", "7", "0", "0", " ", "2", "5">> }

RowInit ==
    /\ pdf_table \in {<< <<"D", "A", "U", "*", " ", "H", "e", "r", "d", " ", "G", "M", "U", " ", "E", "s", "t", "i", "m", "a", "t", "e", " ", "R", "a", "t", "i", "o">> >> \o rows :
                        rows \in SeqsUpTo(RowTexts, MaxTableRows)}
    /\ rowOut = [exc |-> "None", data |-> <<>>, df |-> <<>>]
    /\ rowPc = "table"

IngestElkPopulationRows ==
    /\ rowPc = "table"
    /\ rowOut' = ParseTable(pdf_table)
    /\ rowPc' = "parsed"
    /\ UNCHANGED pdf_table
    /\ UNCHANGED rowOthers

InitRows == RowInit /\ GridInit /\ HdrIdle /\ NormIdle /\ DbIdle /\ BatchIdle

SpecRows == InitRows /\ [][IngestElkPopulationRows]_vars

\* The tokens of a row after its two DAU characters.
RestTokens(cell) == Split(SubSeq(Strip(cell), 3, Len(Strip(cell))))

\* A row the parser is to skip: a footer or header marker, no two-digit DAU,
\* or fewer than four tokens after the DAU.
SkippedRow(cell) ==
    \/ \E marker \in {<<"T", "o", "t", "a", "l">>, <<"D", "A", "U", " ", "(">>, <<"*", " ", "D", "A", "U">>} : Contains(Strip(cell), marker)
    \/ Len(Strip(cell)) < 2
    \/ \E i \in 1..2 : Strip(cell)[i] \notin Range(Digits)
    \/ Len(RestTokens(cell)) < 4

\* The tokens between the DAU and the last two tokens.
MiddleTokens(cell) == SubSeq(RestTokens(cell), 1, Len(RestTokens(cell)) - 2)

\* Positions in the middle tokens that start with a digit or contain a comma.
GmuTokens(cell) ==
    {i \in 1..Len(MiddleTokens(cell)) :
        \/ MiddleTokens(cell)[i][1] \in Range(Digits)
        \/ "," \in Range(MiddleTokens(cell)[i])}

\* Rows of the table (the header is row 1) that are to give a record.
RecordRows == {k \in 2..Len(pdf_table) : ~SkippedRow(pdf_table[k])}

\* Where in data the record of row k is to be.
RecordIndex(k) == Cardinality({j \in RecordRows : j <= k})

\* The parser finished and left a record for row k.
HasRecord(k) == rowOut.exc = "None" /\ Len(rowOut.data) >= RecordIndex(k)

\* C11: a row with no middle token that starts with a digit or contains a
\* comma gets its last middle token as GMU list and the tokens before it as
\* herd name, wherever the row stands in the table.
C11_FallbackLastToken ==
    rowPc = "parsed" =>
        \A k \in RecordRows :
            GmuTokens(pdf_table[k]) = {} =>
                LET middle == MiddleTokens(pdf_table[k])
                IN /\ HasRecord(k)
                   /\ rowOut.data[RecordIndex(k)].gmu_list = middle[Len(middle)]
                   /\ rowOut.data[RecordIndex(k)].herd_name =
                          Join(<<" ">>, SubSeq(middle, 1, Len(middle) - 1))

\* C12: every row with a two-digit DAU and at least four more tokens gives a
\* record whose ratio is the last token and whose estimate is the one before;
\* the middle tokens before the first that starts with a digit or contains a
\* comma, joined by spaces, are the herd name, and that token and the later
\* ones, concatenated, are the GMU list; "12 South Park 76,77,78 1,250 18"
\* gives dau 12, South Park, 76,77,78, estimate 1250 and ratio 18.
C12_RowFields ==
    rowPc = "parsed" =>
        \A k \in RecordRows :
            LET rest == RestTokens(pdf_table[k])
                middle == MiddleTokens(pdf_table[k])
                first == SetMin(GmuTokens(pdf_table[k]))
                record == rowOut.data[RecordIndex(k)]
            IN /\ HasRecord(k)
               /\ record.dau = SubSeq(Strip(pdf_table[k]), 1, 2)
               /\ record.bull_cow_ratio = rest[Len(rest)]
               /\ record.post_hunt_estimate = rest[Len(rest) - 1]
               /\ GmuTokens(pdf_table[k]) # {} =>
                     /\ record.herd_name = Join(<<" ">>, SubSeq(middle, 1, first - 1))
                     /\ record.gmu_list = Join(<<>>, SubSeq(middle, first, Len(middle)))
               /\ pdf_table[k] = <<"1", "2", " ", "S", "o", "u", "t", "h", " ", "P", "a", "r", "k", " ", "7", "6", ",", "7", "7", ",", "7", "8", " ", "1", ",", "2", "5", "0", " ", "1", "8">> =>
                     \E r \in 1..Len(rowOut.df) :
                         /\ rowOut.df[r].dau = <<"1", "2">>
                         /\ rowOut.df[r].herd_name = <<"S", "o", "u", "t", "h", " ", "P", "a", "r", "k">>
                         /\ rowOut.df[r].gmu_list = <<"7", "6", ",", "7", "7", ",", "7", "8">>
                         /\ rowOut.df[r].post_hunt_estimate = IntVal(1250)
                         /\ rowOut.df[r].bull_cow_ratio = IntVal(18)

\* The table without its row k.
WithoutRow(tbl, k) == SubSeq(tbl, 1, k - 1) \o SubSeq(tbl, k + 1, Len(tbl))

\* C13: a skipped row raises nothing and gives no record, and the parse of the
\* table is what the parse of the table without that row is.
C13_SkippedRowsIgnored ==
    rowPc = "parsed" =>
        /\ RecordRows = {} => (rowOut.exc = "None" /\ rowOut.data = <<>>)
        /\ rowOut.exc = "None" => Len(rowOut.data) = Cardinality(RecordRows)
        /\ \A k \in 2..Len(pdf_table) :
              SkippedRow(pdf_table[k]) => ParseTable(WithoutRow(pdf_table, k)) = rowOut

\* A table whose first row is a marker row that starts with a DAU and whose
\* second row gave the one record.
C13_Witness ==
    /\ rowPc = "parsed"
    /\ Len(pdf_table) = 3
    /\ pdf_table[2] = <<"2", "1", " ", "S", "t", "a", "t", "e", "w", "i", "d", "e", " ", "T", "o", "t", "a", "l", " ", "5", " ", "4", "0", ",", "0", "0", "0", " ", "2", "2">>
    /\ ~SkippedRow(pdf_table[3])
    /\ rowOut.exc = "None"
    /\ Len(rowOut.data) = 1
    /\ rowOut.data[1].dau = SubSeq(pdf_table[3], 1, 2)

\* The canonical sex-ratio field of a population record.
RatioField == <<"m", "a", "l", "e", "_", "f", "e", "m", "a", "l", "e", "_", "r", "a", "t", "i", "o">>

\* The cleaned headers of the population table that was normalized.
PopulationHeaders == [i \in 1..Len(normTable[1]) |-> CleanHeaderPopulation(normTable[1][i])]

\* The sex-ratio synonyms of the species (and male_female_ratio) among the headers.
RatioSynonymsPresent ==
    {i \in 1..Len(PopulationHeaders) :
        \E k \in 1..Len(PossibleRatioCols(species)) :
            PopulationHeaders[i] = PossibleRatioCols(species)[k]}

\* C14: no record whose ratio coerces to exactly zero is in the output of the
\* population normalizer.
C14_NoZeroRatioRecord ==
    (normPc = "population_done" /\ HasColumn(normOut.df, RatioField)) =>
        \A r \in 1..Len(normOut.df.rows) :
            Cell(normOut.df, normOut.df.rows[r], RatioField) # IntVal(0)

\* C15: the population normalizer never fails and always outputs the
\* male_female_ratio field: null in every record when the table has no
\* sex-ratio synonym of the species, the coerced values of the synonym column,
\* which is removed, when it has one.
C15_RatioFieldAlwaysPresent ==
    normPc = "population_done" =>
        /\ normOut.exc = "None"
        /\ HasColumn(normOut.df, RatioField)
        /\ \A r \in 1..Len(normOut.df.rows) :
              IF RatioSynonymsPresent = {}
              THEN Cell(normOut.df, normOut.df.rows[r], RatioField) = NullVal
              ELSE Cell(normOut.df, normOut.df.rows[r], RatioField)
                     = ToNumeric(NonFooterRows[r][SetMin(RatioSynonymsPresent)])
        /\ \A i \in RatioSynonymsPresent :
              PopulationHeaders[i] # RatioField => ~HasColumn(normOut.df, PopulationHeaders[i])

\* The sex-class source columns of the species that the harvest table lacks.
MissingSexColumns ==
    {k \in 1..Len(SPECIES_HARVEST_COLUMN_MAP[species]) :
        ~InputHasColumn(SPECIES_HARVEST_COLUMN_MAP[species][k][1])}

\* The cells of the harvest table are ones the unit and count coercions accept.
HarvestCellsCoercible ==
    \A r \in 2..Len(normTable) :
        normTable[r][1] # <<"0">> /\ normTable[r][2] # <<"4", ".", "5">>

\* C16: when the harvest table lacks a sex-class source column of the species,
\* the normalizer does not fail and the dependent field of every output record
\* is null.
C16_MissingSexColumnIsNull ==
    (/\ normPc = "harvest_done"
     /\ species \in DOMAIN SPECIES_HARVEST_COLUMN_MAP
     /\ HarvestCellsCoercible) =>
        \A k \in MissingSexColumns :
            LET target == SPECIES_HARVEST_COLUMN_MAP[species][k][2]
            IN /\ normOut.exc = "None"
               /\ HasColumn(normOut.df, target)
               /\ \A r \in 1..Len(normOut.df.rows) :
                     Cell(normOut.df, normOut.df.rows[r], target) = NullVal

\* C17: when the job of an input reports FAILED the process ends there:
\* nothing is fetched or written for that input, and no later input of the
\* listing is taken up; only a new invocation of the script goes on.
C17_FailedJobEndsProcess ==
    /\ [][(batchPc = "returned" /\ status = "FAILED") =>
             (/\ batchPc' = "exited"
              /\ UNCHANGED <<processed, written, idx, started, run>>)]_vars
    /\ [][batchPc = "exited" =>
             (/\ run' = run + 1
              /\ UNCHANGED processed)]_vars

\* The first of two inputs had its job fail: the process ended on it with
\* nothing written and the second input untouched.
C17_Witness ==
    /\ batchPc = "exited"
    /\ batchExc = "NameError"
    /\ run = 1
    /\ Len(raw_files) = 2
    /\ idx = 1
    /\ started = <<1>>
    /\ written = {}

\* The rows of the frame that carry the key of row.
SameKeyInput(pk, row) ==
    {i \in 1..Len(new_elk_data) : KeyOf(pk, new_elk_data[i]) = KeyOf(pk, row)}

\* C18: an upsert by ingest_elk_population_data leaves every row of the table
\* in its place with its key columns; a row whose key no record of the frame
\* carries is unchanged; a row whose key a record carries takes that record's
\* post_hunt_estimate and bull_cow_ratio; rows are added only for new keys.
C18_OverwritesOnlyMeasurements ==
    (loader = "ingest" /\ runs >= 1) =>
        LET old == tableBefore.rows
            new == elk_population.rows
        IN /\ Len(new) >= Len(old)
           /\ \A i \in 1..Len(old) :
                 /\ FullKey(new[i]) = FullKey(old[i])
                 /\ SameKeyInput("full", old[i]) = {} => new[i] = old[i]
                 /\ (dbExc = "None" /\ SameKeyInput("full", old[i]) # {}) =>
                       LET last == new_elk_data[SetMax(SameKeyInput("full", old[i]))]
                       IN /\ new[i].post_hunt_estimate = last.post_hunt_estimate
                          /\ new[i].bull_cow_ratio = last.bull_cow_ratio
           /\ \A j \in (Len(old) + 1)..Len(new) :
                 \A i \in 1..Len(old) : FullKey(new[j]) # FullKey(old[i])

\* The table held the South Park row with estimate 700 and ratio 20; the
\* frame carried its key with 900 and 18, and a record of another herd.
C18_Witness ==
    /\ loader = "ingest"
    /\ runs = 1
    /\ dbExc = "None"
    /\ tableBefore.rows = << ElkRow("12", "South Park", "76", 700, 20, 2019) >>
    /\ elk_population.rows = << ElkRow("12", "South Park", "76", 900, 18, 2019),
                                ElkRow("13", "Elkhead", "76", 1250, 18, 2019) >>

\* The (herd_name, year) keys of the frame.
InputHerdYearKeys == {HerdYearKey(new_elk_data[i]) : i \in 1..Len(new_elk_data)}

\* C19: after a run of load_elk_population_to_duckdb that inserted without
\* error, the table holds one row for each (herd_name, year) key of the frame,
\* the last record with that key, and nothing else: rows that were there
\* before under other keys are gone.
C19_FullRebuild ==
    (loader = "load" /\ runs >= 1 /\ new_elk_data # <<>> /\ dbExc = "None") =>
        /\ elk_population.exists /\ elk_population.pk = "herd_year"
        /\ Len(elk_population.rows) = Cardinality(InputHerdYearKeys)
        /\ \A i \in 1..Len(elk_population.rows) :
              /\ SameKeyInput("herd_year", elk_population.rows[i]) # {}
              /\ elk_population.rows[i] =
                    new_elk_data[SetMax(SameKeyInput("herd_year", elk_population.rows[i]))]
        /\ \A i \in 1..Len(tableBefore.rows) :
              HerdYearKey(tableBefore.rows[i]) \notin InputHerdYearKeys =>
                  \A j \in 1..Len(elk_population.rows) :
                      HerdYearKey(elk_population.rows[j]) # HerdYearKey(tableBefore.rows[i])

\* The table held a South Park row; the frame held two Elkhead records of one
\* year: the table is left with the second of them alone.
C19_Witness ==
    /\ loader = "load"
    /\ runs = 1
    /\ dbExc = "None"
    /\ tableBefore.pk = "herd_year"
    /\ tableBefore.rows = << ElkRow("12", "South Park", "76", 700, 20, 2019) >>
    /\ Len(new_elk_data) = 2
    /\ elk_population.rows = << ElkRow("13", "Elkhead", "76", 900, 18, 2019) >>

\* C20: when the database write of a loader fails, the exception is logged and
\* the loader returns to its caller; the parquet file that
\* ingest_elk_population_data wrote before the upsert is in place.
C20_WriteFailureNotRaised ==
    (runs >= 1 /\ dbExc # "None") =>
        /\ dbCaller = "returned"
        /\ loader = "ingest" => parquetFile = [exists |-> TRUE, rows |-> new_elk_data]

\* ingest_elk_population_data met a table keyed on (herd_name, year): the
\* upsert failed, the table is as it was, the parquet file of two records is there.
C20_Witness ==
    /\ loader = "ingest"
    /\ runs = 1
    /\ dbExc = "Exception"
    /\ dbCaller = "returned"
    /\ tableBefore.pk = "herd_year"
    /\ elk_population = tableBefore
    /\ parquetFile.exists
    /\ Len(parquetFile.rows) = 2

=============================================================================
